---- MODULE Spec2Model ----
(***************************************************************************)
(* excel2django: the management command that imports spreadsheet rows      *)
(* into django objects (excel2django/management/commands/excel2django.py). *)
(*                                                                         *)
(* Python values are tagged records (PyNone, PyInt, PyStr, PyObj, ...);    *)
(* a str is a sequence of one-character strings.  A call that may raise    *)
(* returns Ok(value) or Raise(exception name).                             *)
(***************************************************************************)
EXTENDS Integers, Sequences, FiniteSets, TLC

VARIABLES
    pc,               \* position of Command.handle
    options,          \* the parsed command line (argparse namespace as dict)
    ranges,           \* argument of a direct combine_ranges call
    rowranges,        \* handle: rowranges
    modeldefinitions, \* handle: modeldefinitions (insertion-ordered dict)
    worksheet,        \* the rows of the selected sheet (raw cell values)
    before,           \* the database when the command was started
    store,            \* the database as seen inside the transaction
    committed,        \* the database as seen outside the transaction
    dbcalls,          \* calls importinstance made on managers and instances
    ri,               \* index into rowranges of the range being iterated
    rowno,            \* number of the sheet row being processed (0: none yet)
    rowcontext,       \* handle: rowcontext
    mi,               \* index of the next model definition for this row
    newversion,       \* handle: newversion (local, survives loop iterations)
    oldversion,       \* handle: oldversion
    objects,          \* handle: objects
    report,           \* lines printed for the last reported row
    reported,         \* number of rows reported so far
    prompts,          \* number of input() calls made
    exc               \* exception that left handle ("" when none)

vars == <<pc, options, ranges, rowranges, modeldefinitions, worksheet, before,
          store, committed, dbcalls, ri, rowno, rowcontext, mi, newversion, oldversion,
          objects, report, reported, prompts, exc>>

-----------------------------------------------------------------------------
(* Python values and outcomes *)

PyNone == [t |-> "none"]
PyInt(i) == [t |-> "int", i |-> i]
PyStr(s) == [t |-> "str", s |-> s]
PyBool(b) == [t |-> "bool", b |-> b]
PyObj(m, id) == [t |-> "obj", m |-> m, id |-> id]
PyList(l) == [t |-> "list", l |-> l]
\* a dict with the single item k: v
PyDict(k, v) == [t |-> "dict", k |-> k, v |-> v]
Unbound == [t |-> "unbound"]

Ok(v) == [ok |-> TRUE, val |-> v]
Raise(e) == [ok |-> FALSE, exc |-> e]

Tri(b) == IF b THEN "T" ELSE "F"

\* code point of a character
Ord(c) ==
    CASE c = " " -> 32 [] c = "*" -> 42 [] c = "+" -> 43 [] c = "-" -> 45
      [] c = "." -> 46 [] c = "0" -> 48 [] c = "1" -> 49 [] c = "2" -> 50
      [] c = "3" -> 51 [] c = "4" -> 52 [] c = "5" -> 53 [] c = "6" -> 54
      [] c = "7" -> 55 [] c = "8" -> 56 [] c = "9" -> 57 [] c = ":" -> 58
      [] c = "A" -> 65 [] c = "B" -> 66 [] c = "C" -> 67 [] c = "x" -> 120
      [] OTHER -> 127

IsDigit(c) == c \in {"0", "1", "2", "3", "4", "5", "6", "7", "8", "9"}

RECURSIVE StrLt(_, _)
StrLt(s, u) ==
    IF u = <<>> THEN FALSE
    ELSE IF s = <<>> THEN TRUE
    ELSE IF Head(s) # Head(u) THEN Ord(Head(s)) < Ord(Head(u))
    ELSE StrLt(Tail(s), Tail(u))

\* a < b on two scalars: "T", "F", or "E" (TypeError)
ScalarLt(a, b) ==
    IF a.t = "int" /\ b.t = "int" THEN Tri(a.i < b.i)
    ELSE IF a.t = "str" /\ b.t = "str" THEN Tri(StrLt(a.s, b.s))
    ELSE "E"

\* a <= b on two scalars
ScalarLe(a, b) ==
    IF a.t = "int" /\ b.t = "int" THEN Tri(a.i <= b.i)
    ELSE IF a.t = "str" /\ b.t = "str" THEN Tri(~StrLt(b.s, a.s))
    ELSE "E"

\* x < y on two 2-tuples: the first differing position decides
TupleLt(x, y) ==
    IF x[1] # y[1] THEN ScalarLt(x[1], y[1])
    ELSE IF x[2] # y[2] THEN ScalarLt(x[2], y[2])
    ELSE "F"

\* bool(v)
Truthy(v) ==
    CASE v.t = "none" -> FALSE
      [] v.t = "int" -> v.i # 0
      [] v.t = "str" -> v.s # <<>>
      [] v.t = "bool" -> v.b
      [] v.t = "list" -> v.l # <<>>
      [] OTHER -> TRUE

-----------------------------------------------------------------------------
(* sorted(): list.sort on a short list (one run, then binary insertion) *)

RECURSIVE CountRunFrom(_, _, _)
CountRunFrom(a, i, desc) ==
    IF i > Len(a) THEN Ok(i - 1)
    ELSE LET c == TupleLt(a[i], a[i - 1])
         IN  IF c = "E" THEN Raise("TypeError")
             ELSE IF (c = "T") = desc THEN CountRunFrom(a, i + 1, desc)
             ELSE Ok(i - 1)

RECURSIVE Reverse(_)
Reverse(s) == IF s = <<>> THEN <<>> ELSE Append(Reverse(Tail(s)), Head(s))

RECURSIVE BinPos(_, _, _, _)
BinPos(a, pivot, l, r) ==
    IF l >= r THEN Ok(l)
    ELSE LET p == l + ((r - l) \div 2)
             c == TupleLt(pivot, a[p])
         IN  IF c = "E" THEN Raise("TypeError")
             ELSE IF c = "T" THEN BinPos(a, pivot, l, p)
             ELSE BinPos(a, pivot, p + 1, r)

RECURSIVE BinarySort(_, _)
BinarySort(a, start) ==
    IF start > Len(a) THEN Ok(a)
    ELSE LET pos == BinPos(a, a[start], 1, start)
         IN  IF ~pos.ok THEN pos
             ELSE BinarySort(
                    SubSeq(a, 1, pos.val - 1) \o <<a[start]>>
                      \o SubSeq(a, pos.val, start - 1)
                      \o SubSeq(a, start + 1, Len(a)),
                    start + 1)

Sorted(a) ==
    IF Len(a) < 2 THEN Ok(a)
    ELSE LET c == TupleLt(a[2], a[1])
         IN  IF c = "E" THEN Raise("TypeError")
             ELSE LET run == CountRunFrom(a, 3, c = "T")
                  IN  IF ~run.ok THEN run
                      ELSE LET n == run.val
                               b == IF c = "T"
                                    THEN Reverse(SubSeq(a, 1, n))
                                           \o SubSeq(a, n + 1, Len(a))
                                    ELSE a
                           IN  BinarySort(b, n + 1)

-----------------------------------------------------------------------------
(* range_overlap and combine_ranges *)

contains(start, end, i) ==
    IF start.t = "none" /\ end.t = "none" THEN "T"
    ELSE IF start.t = "none" THEN ScalarLe(i, end)
    ELSE IF end.t = "none" THEN ScalarLe(start, i)
    ELSE LET c == ScalarLe(start, i)
         IN  IF c = "T" THEN ScalarLe(i, end) ELSE c

\* a or b, for tri-state operands; b is not evaluated unless a is false
OrElse(a, b) == IF a = "F" THEN b ELSE a

range_overlap(start1, end1, start2, end2) ==
    OrElse(contains(start1, end1, start2),
    OrElse(contains(start1, end1, end2),
    OrElse(contains(start2, end2, start1),
           contains(start2, end2, end1))))

\* combined[-1][1] = r[1]: the intervals are tuples, item assignment raises
tuple_setitem(combined, v) == Raise("TypeError")

RECURSIVE CombineFrom(_, _, _)
CombineFrom(srt, i, combined) ==
    IF i > Len(srt) THEN Ok(combined)
    ELSE LET r == srt[i]
         IN  IF combined = <<>> THEN CombineFrom(srt, i + 1, <<r>>)
             ELSE LET last == combined[Len(combined)]
                      ov == range_overlap(last[1], last[2], r[1], r[2])
                  IN  IF ov = "E" THEN Raise("TypeError")
                      ELSE IF ov = "F"
                      THEN CombineFrom(srt, i + 1, Append(combined, r))
                      ELSE LET gt == ScalarLt(last[2], r[2])
                           IN  IF gt = "E" THEN Raise("TypeError")
                               ELSE IF gt = "T"
                               THEN LET a == tuple_setitem(combined, r[2])
                                    IN  IF ~a.ok THEN a
                                        ELSE CombineFrom(srt, i + 1, a.val)
                               ELSE CombineFrom(srt, i + 1, combined)

combine_ranges(rs) ==
    LET srt == Sorted(rs)
    IN  IF ~srt.ok THEN srt ELSE CombineFrom(srt.val, 1, <<>>)

-----------------------------------------------------------------------------
(* str helpers, try_int and the --rows option *)

RECURSIVE LStrip(_)
LStrip(s) == IF s # <<>> /\ Head(s) = " " THEN LStrip(Tail(s)) ELSE s

\* s.strip()
Strip(s) == Reverse(LStrip(Reverse(LStrip(s))))

RECURSIVE IndexOf(_, _, _)
IndexOf(s, sep, i) ==
    IF i > Len(s) THEN 0 ELSE IF s[i] = sep THEN i ELSE IndexOf(s, sep, i + 1)

RECURSIVE LastIndexOf(_, _, _)
LastIndexOf(s, sep, i) ==
    IF i < 1 THEN 0 ELSE IF s[i] = sep THEN i ELSE LastIndexOf(s, sep, i - 1)

\* s.split(sep, 1)
Split1(s, sep) ==
    LET i == IndexOf(s, sep, 1)
    IN  IF i = 0 THEN <<s>>
        ELSE <<SubSeq(s, 1, i - 1), SubSeq(s, i + 1, Len(s))>>

\* s.rsplit(sep, 1)
RSplit1(s, sep) ==
    LET i == LastIndexOf(s, sep, Len(s))
    IN  IF i = 0 THEN <<s>>
        ELSE <<SubSeq(s, 1, i - 1), SubSeq(s, i + 1, Len(s))>>

RECURSIVE DigitsValue(_, _)
DigitsValue(s, acc) ==
    IF s = <<>> THEN acc
    ELSE DigitsValue(Tail(s), 10 * acc + (Ord(Head(s)) - 48))

\* int(v)
py_int(v) ==
    IF v.t = "int" THEN Ok(v)
    ELSE IF v.t # "str" THEN Raise("TypeError")
    ELSE LET b == Strip(v.s)
             signed == b # <<>> /\ Head(b) \in {"-", "+"}
             d == IF signed THEN Tail(b) ELSE b
         IN  IF d = <<>> \/ \E k \in 1..Len(d) : ~IsDigit(d[k])
             THEN Raise("ValueError")
             ELSE IF signed /\ Head(b) = "-"
             THEN Ok(PyInt(0 - DigitsValue(d, 0)))
             ELSE Ok(PyInt(DigitsValue(d, 0)))

try_int(v, default) ==
    LET r == py_int(v)
    IN  IF r.ok THEN r.val
        ELSE IF default = PyNone THEN v ELSE default

\* the generator of handle lines 85-91, drained into a list
RECURSIVE ParseRows(_)
ParseRows(rows) ==
    IF rows = <<>> THEN Ok(<<>>)
    ELSE LET parts == Split1(Head(rows), ":")
         IN  IF Len(parts) < 2 THEN Raise("IndexError")
             ELSE LET rest == ParseRows(Tail(rows))
                  IN  IF ~rest.ok THEN rest
                      ELSE Ok(<<<<try_int(PyStr(parts[1]), PyNone),
                                  try_int(PyStr(parts[2]), PyNone)>>>>
                                \o rest.val)

\* handle lines 81-92: rowranges from options["rows"]; <<>> stands for the
\* None of an absent --rows (action="append" never yields an empty list)
HandleRows(rows) ==
    IF rows = <<>> THEN Ok(<<<<PyNone, PyNone>>>>)
    ELSE LET parsed == ParseRows(rows)
         IN  IF ~parsed.ok THEN parsed ELSE combine_ranges(parsed.val)

-----------------------------------------------------------------------------
(* The object store: django's app registry, managers and instances.         *)
(* Schema: app "app" with Author(id, name, age, mentor -> Author) and       *)
(* Book(id, title, author -> Author, related_name "books").                 *)

ConcreteFields(m) ==
    IF m = "Author" THEN {"id", "name", "age", "mentor"}
    ELSE {"id", "title", "author"}

\* apps.get_model(app_label, model_name)
get_model(app_label, model_name) ==
    IF app_label = <<"app">> /\ model_name \in {<<"Author">>, <<"Book">>}
    THEN Ok(model_name[1])
    ELSE Raise("LookupError")

\* model._meta.get_field(field)
get_field(m, field) ==
    IF Len(field) = 1 /\ field[1] \in ConcreteFields(m)
    THEN Ok([name |-> field[1], rel |-> FALSE, child |-> "", fk |-> ""])
    ELSE IF m = "Author" /\ field = <<"books">>
    THEN Ok([name |-> "books", rel |-> TRUE, child |-> "Book", fk |-> "author"])
    ELSE Raise("FieldDoesNotExist")

\* a freshly constructed instance: every field at its default
BlankObject(m, id) ==
    [f \in ConcreteFields(m) |-> IF f = "id" THEN PyInt(id) ELSE PyNone]

\* Model(**kw) with primary key id
NewObject(m, id, kw) ==
    [f \in ConcreteFields(m) |->
        IF f \in DOMAIN kw THEN kw[f] ELSE BlankObject(m, id)[f]]

\* setattr(obj, k, v) for every item of kw
SetAttrs(obj, kw) ==
    [f \in DOMAIN obj |-> IF f \in DOMAIN kw THEN kw[f] ELSE obj[f]]

\* manager.filter(**kw), in primary-key order
Filter(st, m, kw) ==
    IF ~(DOMAIN kw \subseteq ConcreteFields(m)) THEN Raise("FieldError")
    ELSE LET Match(o) == \A k \in DOMAIN kw : o[k] = kw[k]
         IN  Ok(SelectSeq(st[m], Match))

\* an instance as handed to the caller: its model and its field values
Instance(m, obj) == [t |-> "inst", m |-> m, f |-> obj]

\* instance.save() / manager.create(): write obj at its primary key
Save(st, m, obj) ==
    LET id == obj["id"].i
    IN  IF id > Len(st[m]) THEN [st EXCEPT ![m] = Append(@, obj)]
        ELSE [st EXCEPT ![m][id] = obj]

\* manager.update_or_create(defaults=defaults, **kw)
update_or_create(st, m, defaults, kw) ==
    LET found == Filter(st, m, kw)
    IN  IF ~found.ok THEN [exc |-> found.exc, store |-> st, obj |-> PyNone]
        ELSE IF Len(found.val) > 1
        THEN [exc |-> "MultipleObjectsReturned", store |-> st, obj |-> PyNone]
        ELSE LET obj == IF found.val = <<>>
                        THEN SetAttrs(NewObject(m, Len(st[m]) + 1, kw), defaults)
                        ELSE SetAttrs(found.val[1], defaults)
             IN  [exc |-> "", store |-> Save(st, m, obj), obj |-> obj]

\* django.forms.models.model_to_dict(instance)
model_to_dict(inst) == inst.f

-----------------------------------------------------------------------------
(* Value expressions.  An expression is a sequence of tokens:               *)
(*   <<c>>                           the name c (a column letter)           *)
(*   <<"ref", app, model, f, c>>     ref("app.model", f=c)                  *)
(*   <<"noempty", c>>                ref.__globals__["noempty"](c)          *)
(*   <<"dicts", f, c>>               [{"f": c}]                             *)
(*   <<"refs", app, model, f, c>>    [ref("app.model", f=c)]                *)

\* name lookup: the row's columns are the locals of eval
Name(c, rowctx) ==
    IF c \in DOMAIN rowctx THEN Ok(rowctx[c]) ELSE Raise("NameError")

\* ref(modelname, **kwargs) with one keyword argument
ref(st, app, model, f, v) ==
    LET m == get_model(<<app>>, <<model>>)
    IN  IF ~m.ok THEN m
        ELSE LET found == Filter(st, m.val, f :> v)
             IN  IF ~found.ok THEN found
                 ELSE IF found.val = <<>> THEN Ok(PyNone)
                 ELSE Ok(PyObj(m.val, found.val[1]["id"].i))

noempty(value) ==
    IF value = PyStr(<<>>) THEN Raise("IgnoreObject") ELSE Ok(value)

\* eval(field["expression"], {"ref": ref, "vmap": vmap}, rowcontext)
_extract_fieldvalue(field, rowctx, st) ==
    LET e == field.expression
    IN  IF Len(e) = 1 THEN Name(e[1], rowctx)
        ELSE IF Len(e) = 2 /\ e[1] = "noempty"
        THEN LET a == Name(e[2], rowctx)
             IN  IF ~a.ok THEN a ELSE noempty(a.val)
        ELSE IF Len(e) = 3 /\ e[1] = "dicts"
        THEN LET a == Name(e[3], rowctx)
             IN  IF ~a.ok THEN a ELSE Ok(PyList(<<PyDict(e[2], a.val)>>))
        ELSE IF Len(e) = 5 /\ e[1] \in {"ref", "refs"}
        THEN LET a == Name(e[5], rowctx)
             IN  IF ~a.ok THEN a
                 ELSE LET r == ref(st, e[2], e[3], e[4], a.val)
                      IN  IF ~r.ok \/ e[1] = "ref" THEN r
                          ELSE Ok(PyList(<<r.val>>))
        ELSE Raise("SyntaxError")

-----------------------------------------------------------------------------
(* importinstance *)

IsRelation(f) == f.modelfield.rel

\* the dict comprehensions of lines 191-195 and 198-206: the selected fields
\* are evaluated in order, the first exception ends the evaluation
RECURSIVE ExtractAll(_, _, _)
ExtractAll(fs, rowctx, st) ==
    IF fs = <<>> THEN Ok(<<>>)
    ELSE LET v == _extract_fieldvalue(Head(fs), rowctx, st)
         IN  IF ~v.ok THEN v
             ELSE LET rest == ExtractAll(Tail(fs), rowctx, st)
                  IN  IF ~rest.ok THEN rest ELSE Ok(<<v.val>> \o rest.val)

\* {f["modelfield"].name: value} for the fields fs and their values vs
AsDict(fs, vs) ==
    [n \in {fs[i].modelfield.name : i \in 1..Len(fs)} |->
        vs[CHOOSE i \in 1..Len(fs) :
              /\ fs[i].modelfield.name = n
              /\ \A j \in (i + 1)..Len(fs) : fs[j].modelfield.name # n]]

IsNaturalKey(f) == f.is_natural_key
IsDefault(f) == ~f.is_natural_key /\ ~IsRelation(f)

\* lines 219-222: related_manager.add(*object_list, bulk=False)
RECURSIVE AddAll(_, _, _, _)
AddAll(st, f, parent, objs) ==
    IF objs = <<>> THEN [exc |-> "", store |-> st]
    ELSE LET o == Head(objs)
         IN  IF o.t # "obj" \/ o.m # f.modelfield.child
             THEN [exc |-> "TypeError", store |-> st]
             ELSE AddAll(Save(st, o.m,
                              SetAttrs(st[o.m][o.id], f.modelfield.fk :> parent)),
                         f, parent, Tail(objs))

\* the child is created without looking at the result of the lookup
NotFound_always(objs) == TRUE

\* line 231: not obj, for obj = queryset.first()
NotFound(objs) == objs = <<>>

\* lines 224-232: create the described children that do not exist yet
RECURSIVE CreateMissing(_, _, _, _)
CreateMissing(st, f, parent, dicts) ==
    IF dicts = <<>> THEN [exc |-> "", store |-> st]
    ELSE LET args == Head(dicts)
             child == f.modelfield.child
         IN  IF args.t # "dict" THEN [exc |-> "TypeError", store |-> st]
             ELSE LET kw == (args.k :> args.v) @@ (f.modelfield.fk :> parent)
                      found == Filter(st, child, kw)
                  IN  IF ~found.ok THEN [exc |-> found.exc, store |-> st]
                      ELSE CreateMissing(
                             IF NotFound(found.val)
                             THEN Save(st, child,
                                       NewObject(child, Len(st[child]) + 1, kw))
                             ELSE st,
                             f, parent, Tail(dicts))

\* lines 211-232: the loop over the relation fields
RECURSIVE Relations(_, _, _, _, _)
Relations(fs, rowctx, st, parent, calls) ==
    IF fs = <<>> THEN [exc |-> "", store |-> st, calls |-> calls]
    ELSE IF ~IsRelation(Head(fs))
    THEN Relations(Tail(fs), rowctx, st, parent, calls)
    ELSE LET object_list == _extract_fieldvalue(Head(fs), rowctx, st)
         IN  IF ~object_list.ok
             THEN [exc |-> object_list.exc, store |-> st, calls |-> calls]
             ELSE IF ~Truthy(object_list.val)
             THEN Relations(Tail(fs), rowctx, st, parent, calls)
             ELSE IF object_list.val.t # "list"
             THEN [exc |-> "TypeError", store |-> st, calls |-> calls + 1]
             ELSE LET l == object_list.val.l
                      r == IF l[1].t = "obj"
                           THEN AddAll(st, Head(fs), parent, l)
                           ELSE CreateMissing(st, Head(fs), parent, l)
                  IN  IF r.exc # ""
                      THEN [exc |-> r.exc, store |-> r.store,
                            calls |-> calls + 2]
                      ELSE Relations(Tail(fs), rowctx, r.store, parent,
                                     calls + 2)

\* not any(values) in place of not all(values)
NotAll_none(values) == \A i \in 1..Len(values) : ~Truthy(values[i])

\* line 196: not all(values)
NotAll(values) == \E i \in 1..Len(values) : ~Truthy(values[i])

\* importinstance(model, rowcontext) on the store st.  exc is "" on a normal
\* return of (new, old); calls counts the calls made on the model's manager
\* and on the instance (filter, update_or_create, save, related managers).
importinstance(model, rowctx, st) ==
    LET nkfields == SelectSeq(model.fields, IsNaturalKey)
        nk == ExtractAll(nkfields, rowctx, st)
        none == [new |-> PyNone, old |-> PyBool(FALSE), store |-> st, calls |-> 0]
    IN  IF ~nk.ok THEN [exc |-> nk.exc] @@ none
        ELSE IF NotAll(nk.val)
        THEN [exc |-> ""] @@ none
        ELSE
        LET naturalkey_values == AsDict(nkfields, nk.val)
            dffields == SelectSeq(model.fields, IsDefault)
            df == ExtractAll(dffields, rowctx, st)
        IN  IF ~df.ok THEN [exc |-> df.exc] @@ none
            ELSE
            LET default_values == AsDict(dffields, df.val)
                found == Filter(st, model.model, naturalkey_values)
            IN  IF ~found.ok THEN [exc |-> found.exc] @@ [none EXCEPT !.calls = 1]
                ELSE
                LET oldobject == IF found.val = <<>> THEN PyNone
                                 ELSE Instance(model.model, found.val[1])
                    uc == update_or_create(st, model.model, default_values,
                                           naturalkey_values)
                IN  IF uc.exc # ""
                    THEN [exc |-> uc.exc] @@ [none EXCEPT !.calls = 2]
                    ELSE
                    LET newobject == Instance(model.model, uc.obj)
                        rel == Relations(model.fields, rowctx, uc.store,
                                         PyObj(model.model, uc.obj["id"].i), 2)
                    IN  [exc |-> rel.exc,
                         new |-> IF rel.exc = "" THEN newobject ELSE PyNone,
                         old |-> IF rel.exc = "" THEN oldobject ELSE PyBool(FALSE),
                         store |-> rel.store, calls |-> rel.calls]

-----------------------------------------------------------------------------
(* Command.handle: the --field directives.  A directive is a sequence of    *)
(* tokens: the punctuation "*", "+", ".", ":" and words.                    *)

NaturalKeyMarker == "*"

RECURSIVE KeyIndex(_, _, _)
KeyIndex(defs, key, i) ==
    IF i > Len(defs) THEN 0
    ELSE IF defs[i].key = key THEN i ELSE KeyIndex(defs, key, i + 1)

RECURSIVE FieldIndex(_, _, _)
FieldIndex(fields, field, i) ==
    IF i > Len(fields) THEN 0
    ELSE IF fields[i].field = field THEN i ELSE FieldIndex(fields, field, i + 1)

\* d[key] = value on an insertion-ordered dict of field entries
SetField(fields, entry) ==
    LET i == FieldIndex(fields, entry.field, 1)
    IN  IF i = 0 THEN Append(fields, entry) ELSE [fields EXCEPT ![i] = entry]

\* lines 100-119
RECURSIVE ParseFields(_, _)
ParseFields(fieldargs, defs) ==
    IF fieldargs = <<>> THEN Ok(defs)
    ELSE
    LET p1 == Split1(Head(fieldargs), ":")
    IN  IF Len(p1) # 2 THEN Raise("ValueError")
        ELSE
        LET fieldspec == p1[1]
            valueexpr == p1[2]
            p2 == RSplit1(fieldspec, ".")
        IN  IF Len(p2) # 2 THEN Raise("ValueError")
            ELSE
            LET field == p2[2]
                is_natural_key == p2[1] # <<>> /\ Head(p2[1]) = NaturalKeyMarker
                app_model == IF is_natural_key THEN Tail(p2[1]) ELSE p2[1]
                p3 == Split1(app_model, ".")
            IN  IF Len(p3) # 2 THEN Raise("ValueError")
                ELSE
                LET app_label == p3[1]
                    modelname == p3[2]
                    i == KeyIndex(defs, app_model, 1)
                    m == IF i = 0
                         THEN get_model(app_label, Split1(modelname, ".")[1])
                         ELSE Ok(defs[i].model)
                IN  IF ~m.ok THEN m
                    ELSE
                    LET mf == get_field(m.val, field)
                        defs1 == IF i = 0
                                 THEN Append(defs, [key |-> app_model,
                                                    model |-> m.val,
                                                    fields |-> <<>>])
                                 ELSE defs
                        k == IF i = 0 THEN Len(defs1) ELSE i
                    IN  IF ~mf.ok THEN mf
                        ELSE ParseFields(
                               Tail(fieldargs),
                               [defs1 EXCEPT ![k].fields =
                                   SetField(@, [field |-> field,
                                                modelfield |-> mf.val,
                                                expression |-> valueexpr,
                                                is_natural_key |-> is_natural_key])])

\* the promotion without its "if not any(...)" guard
PromoteNaturalKeys_all(defs) ==
    [i \in 1..Len(defs) |->
        [defs[i] EXCEPT !.fields =
            [j \in 1..Len(@) |-> [@[j] EXCEPT !.is_natural_key = TRUE]]]]

\* lines 120-129
PromoteNaturalKeys(defs) ==
    [i \in 1..Len(defs) |->
        IF \E j \in 1..Len(defs[i].fields) : defs[i].fields[j].is_natural_key
        THEN defs[i]
        ELSE [defs[i] EXCEPT !.fields =
                 [j \in 1..Len(@) |-> [@[j] EXCEPT !.is_natural_key = TRUE]]]]

\* model_import_order(modeldefinitions): the keys in insertion order
model_import_order(defs) == [i \in 1..Len(defs) |-> i]

-----------------------------------------------------------------------------
(* Command.handle: rows of the sheet *)

ColumnLetters == <<"A", "B", "C", "D">>

\* openpyxl.utils.cell.get_column_letter
get_column_letter(i) == ColumnLetters[i]

\* lines 135-141
BuildRowContext(row) ==
    [c \in {get_column_letter(i) : i \in 1..Len(row)} |->
        LET v == row[CHOOSE i \in 1..Len(row) : get_column_letter(i) = c]
        IN  IF v.t = "str" THEN PyStr(Strip(v.s)) ELSE v]

\* worksheet.iter_rows(min_row, max_row): a falsy bound means the sheet's own
\* first or last row; the result is the interval of row numbers, or raises
iter_rows(sheet, min_row, max_row) ==
    LET lo == IF Truthy(min_row) THEN min_row ELSE PyInt(1)
        hi == IF Truthy(max_row) THEN max_row ELSE PyInt(Len(sheet))
    IN  IF lo.t # "int" \/ hi.t # "int" THEN Raise("TypeError")
        ELSE Ok(<<IF lo.i < 1 THEN 1 ELSE lo.i,
                  IF hi.i > Len(sheet) THEN Len(sheet) ELSE hi.i>>)

\* lines 133-134: the row after row n of range i (n = 0: the range is fresh)
RECURSIVE NextPos(_, _, _, _)
NextPos(rr, sheet, i, n) ==
    IF i > Len(rr) THEN Ok(<<i, 0>>)
    ELSE LET b == iter_rows(sheet, rr[i][1], rr[i][2])
         IN  IF ~b.ok THEN b
             ELSE LET c == IF n = 0 THEN b.val[1] ELSE n + 1
                  IN  IF c <= b.val[2] THEN Ok(<<i, c>>)
                      ELSE NextPos(rr, sheet, i + 1, 0)

\* lines 153-178: the line printed for one (newversion, oldversion)
ReportLine(newv, oldv) ==
    LET newdict == model_to_dict(newv)
    IN  IF ~Truthy(oldv)
        THEN Ok([kind |-> "new", changed |-> newdict,
                 removed |-> {}, added |-> {}])
        ELSE
        LET olddict == model_to_dict(oldv)
            sym == (DOMAIN olddict \ DOMAIN newdict)
                     \cup (DOMAIN newdict \ DOMAIN olddict)
        IN  IF sym # {} THEN Raise("KeyError")
            ELSE
            LET changedfields == {k \in sym : newdict[k] # olddict[k]}
                removed == DOMAIN olddict \ DOMAIN newdict
                added == DOMAIN newdict \ DOMAIN olddict
            IN  Ok([kind |-> IF changedfields = {} /\ removed = {} /\ added = {}
                             THEN "nochanges" ELSE "updated",
                    changed |-> [k \in changedfields |-> newdict[k]],
                    removed |-> removed, added |-> added])

RECURSIVE ReportLines(_)
ReportLines(objs) ==
    IF objs = <<>> THEN Ok(<<>>)
    ELSE LET l == ReportLine(Head(objs)[1], Head(objs)[2])
         IN  IF ~l.ok THEN l
             ELSE LET rest == ReportLines(Tail(objs))
                  IN  IF ~rest.ok THEN rest ELSE Ok(<<l.val>> \o rest.val)

\* str.lower() on an answer
Lower(s) == [i \in 1..Len(s) |-> IF s[i] = "Y" THEN "y" ELSE
                                 IF s[i] = "N" THEN "n" ELSE s[i]]

-----------------------------------------------------------------------------
(* Command.handle as a state machine *)

\* an exception leaves handle: transaction.atomic() rolls the writes back
Abort(e) ==
    /\ pc' = "failed"
    /\ exc' = e
    /\ store' = committed
    /\ UNCHANGED <<options, ranges, rowranges, modeldefinitions, worksheet,
                   before, committed, dbcalls, ri, rowno, rowcontext, mi,
                   newversion, oldversion, objects, report, reported, prompts>>

\* lines 81-129: the row ranges and the model definitions
Setup ==
    /\ pc = "start"
    /\ \E rr \in {HandleRows(options.rows)},
          defs \in {ParseFields(options.field, <<>>)} :
           IF ~rr.ok THEN Abort(rr.exc)
           ELSE IF ~defs.ok THEN Abort(defs.exc)
           ELSE /\ rowranges' = rr.val
                /\ modeldefinitions' = PromoteNaturalKeys(defs.val)
                /\ pc' = "rows"
                /\ UNCHANGED <<options, ranges, worksheet, before, store,
                               committed, dbcalls, ri, rowno, rowcontext, mi,
                               newversion, oldversion, objects, report,
                               reported, prompts, exc>>

\* lines 133-142: the next row of the selected ranges and its context
NextRow ==
    /\ pc = "rows"
    /\ \E pos \in {NextPos(rowranges, worksheet, ri, rowno)} :
           IF ~pos.ok THEN Abort(pos.exc)
           ELSE IF pos.val[1] > Len(rowranges)
           THEN /\ pc' = "confirm"
                /\ ri' = pos.val[1]
                /\ rowno' = 0
                /\ UNCHANGED <<rowcontext, objects, mi>>
                /\ UNCHANGED <<options, ranges, rowranges, modeldefinitions,
                               worksheet, before, store, committed, dbcalls,
                               newversion, oldversion, report, reported,
                               prompts, exc>>
           ELSE /\ pc' = "model"
                /\ ri' = pos.val[1]
                /\ rowno' = pos.val[2]
                /\ rowcontext' = BuildRowContext(worksheet[pos.val[2]])
                /\ objects' = <<>>
                /\ mi' = 1
                /\ UNCHANGED <<options, ranges, rowranges, modeldefinitions,
                               worksheet, before, store, committed, dbcalls,
                               newversion, oldversion, report, reported,
                               prompts, exc>>

\* a bare except in place of except IgnoreObject
IsIgnored_any(e) == TRUE

\* line 148: except IgnoreObject
IsIgnored(e) == e = "IgnoreObject"

\* lines 143-151: one iteration of the loop over the model definitions
ImportModel ==
    /\ pc = "model"
    /\ mi <= Len(modeldefinitions)
    /\ \E r \in {importinstance(
                      modeldefinitions[model_import_order(modeldefinitions)[mi]],
                      rowcontext, store)} :
       LET nv == IF r.exc = "" THEN r.new ELSE newversion
           ov == IF r.exc = "" THEN r.old ELSE oldversion
       IN  IF r.exc # "" /\ ~IsIgnored(r.exc) THEN Abort(r.exc)
           ELSE IF nv = Unbound THEN Abort("UnboundLocalError")
           ELSE /\ newversion' = nv
                /\ oldversion' = ov
                /\ store' = r.store
                /\ dbcalls' = dbcalls + r.calls
                /\ objects' = IF nv # PyNone THEN Append(objects, <<nv, ov>>)
                              ELSE objects
                /\ mi' = mi + 1
                /\ UNCHANGED <<pc, options, ranges, rowranges,
                               modeldefinitions, worksheet, before, committed,
                               ri, rowno, rowcontext, report, reported,
                               prompts, exc>>

\* lines 152-178: the report of the row's objects
ReportRow ==
    /\ pc = "model"
    /\ mi > Len(modeldefinitions)
    /\ \E lines \in {ReportLines(objects)} :
           IF ~lines.ok THEN Abort(lines.exc)
           ELSE /\ report' = lines.val
                /\ reported' = reported + 1
                /\ pc' = "rows"
                /\ UNCHANGED <<options, ranges, rowranges, modeldefinitions,
                               worksheet, before, store, committed, dbcalls,
                               ri, rowno, rowcontext, mi, newversion,
                               oldversion, objects, prompts, exc>>

\* what the user may type at the prompt
Answers == {<<>>, <<"y">>, <<"Y">>, <<"n">>}

\* leaving the atomic block normally commits the transaction
Commit ==
    /\ pc' = "done"
    /\ committed' = store
    /\ UNCHANGED <<options, ranges, rowranges, modeldefinitions, worksheet,
                   before, store, dbcalls, ri, rowno, rowcontext, mi,
                   newversion, oldversion, objects, report, reported, exc>>

\* lines 179-182 and the end of the atomic block
Finish ==
    /\ pc = "confirm"
    /\ IF "yes" \notin DOMAIN options
       THEN \E do \in Answers :
              /\ prompts' = prompts + 1
              /\ IF Lower(do) \notin {<<>>, <<"y">>}
                 THEN /\ pc' = "failed"
                      /\ exc' = "Exception"
                      /\ store' = committed
                      /\ UNCHANGED <<options, ranges, rowranges,
                                     modeldefinitions, worksheet, before,
                                     committed, dbcalls, ri, rowno, rowcontext,
                                     mi, newversion, oldversion, objects,
                                     report, reported>>
                 ELSE Commit
       ELSE /\ prompts' = prompts
            /\ Commit

Next == Setup \/ NextRow \/ ImportModel \/ ReportRow \/ Finish

-----------------------------------------------------------------------------
(* Inputs: command lines, sheets and databases *)

\* --field "*app.Author.1.name:A" --field app.Author.1.age:B
FieldsKeyed ==
    << <<"*", "app", ".", "Author", ".", "1", ".", "name", ":", "A">>,
       <<"app", ".", "Author", ".", "1", ".", "age", ":", "B">> >>

\* --field app.Author.name:A --field app.Author.age:B
FieldsUnmarked ==
    << <<"app", ".", "Author", ".", "name", ":", "A">>,
       <<"app", ".", "Author", ".", "age", ":", "B">> >>

\* --field +app.Author.1.name:A --field app.Author.1.age:B (the marker of the help text)
FieldsPlus ==
    << <<"+", "app", ".", "Author", ".", "1", ".", "name", ":", "A">>,
       <<"app", ".", "Author", ".", "1", ".", "age", ":", "B">> >>

\* the first model raises IgnoreObject on an empty B
FieldsSkipFirst ==
    << <<"*", "app", ".", "Book", ".", "title", ":", "noempty", "B">>,
       <<"*", "app", ".", "Author", ".", "name", ":", "A">> >>

\* the second model raises IgnoreObject on an empty B
FieldsSkipLater ==
    << <<"*", "app", ".", "Author", ".", "name", ":", "A">>,
       <<"*", "app", ".", "Book", ".", "title", ":", "noempty", "B">> >>

\* Book.author refers to a column the sheet does not have
FieldsBadExpr ==
    << <<"*", "app", ".", "Author", ".", "name", ":", "A">>,
       <<"*", "app", ".", "Book", ".", "title", ":", "B">>,
       <<"app", ".", "Book", ".", "author", ":", "C">> >>

\* a natural-key expression refers to a column the sheet does not have
FieldsBadKey ==
    << <<"*", "app", ".", "Author", ".", "name", ":", "A">>,
       <<"*", "app", ".", "Author", ".", "age", ":", "C">> >>

\* group 1 is keyed by name and age, group 2 by name alone
FieldsTwoGroups ==
    << <<"app", ".", "Author", ".", "1", ".", "name", ":", "A">>,
       <<"app", ".", "Author", ".", "1", ".", "age", ":", "B">>,
       <<"*", "app", ".", "Author", ".", "2", ".", "name", ":", "A">> >>

\* Author.books as descriptions of child records
FieldsChildren ==
    << <<"*", "app", ".", "Author", ".", "name", ":", "A">>,
       <<"app", ".", "Author", ".", "books", ":", "dicts", "title", "B">> >>

\* Author.books as existing Book objects
FieldsAddRefs ==
    << <<"*", "app", ".", "Book", ".", "title", ":", "B">>,
       <<"*", "app", ".", "Author", ".", "name", ":", "A">>,
       <<"app", ".", "Author", ".", "books", ":", "refs", "app", "Book", "title", "B">> >>

\* Book.author as a reference to the Author of the same row
FieldsRef ==
    << <<"*", "app", ".", "Author", ".", "name", ":", "A">>,
       <<"*", "app", ".", "Book", ".", "title", ":", "B">>,
       <<"app", ".", "Book", ".", "author", ":", "ref", "app", "Author", "name", "A">> >>

\* Author.mentor as a reference to an Author looked up by the row's own name
FieldsSelfRef ==
    << <<"*", "app", ".", "Author", ".", "name", ":", "A">>,
       <<"app", ".", "Author", ".", "mentor", ":", "ref", "app", "Author", "name", "A">> >>

FieldOptions ==
    {FieldsKeyed,
     FieldsUnmarked,
     FieldsPlus,
     FieldsSkipFirst,
     FieldsSkipLater,
     FieldsBadExpr,
     FieldsBadKey,
     FieldsTwoGroups,
     FieldsChildren,
     FieldsAddRefs,
     FieldsRef,
     FieldsSelfRef}

\* --rows absent, and --rows 2:2 --rows 1:1
RowsOptions == {<<>>, << <<"2", ":", "2">>, <<"1", ":", "1">> >>}

NumRows == 2

ColumnA == {PyStr(<<"A">>), PyStr(<<" ">>)}
ColumnB == {PyInt(6), PyInt(0), PyStr(<<" ">>)}

Sheets == [1..NumRows -> {<<a, b>> : a \in ColumnA, b \in ColumnB}]

EmptyStore == [Author |-> <<>>, Book |-> <<>>]

Databases ==
    {EmptyStore,
     [Author |-> <<[id |-> PyInt(1), name |-> PyStr(<<"A">>),
                    age |-> PyInt(5), mentor |-> PyNone]>>,
      Book |-> <<>>]}

\* the locals of handle before the first row
InitLocals ==
    /\ pc = "start"
    /\ rowranges = <<>>
    /\ modeldefinitions = <<>>
    /\ dbcalls = 0
    /\ ri = 1
    /\ rowno = 0
    /\ rowcontext = <<>>
    /\ mi = 1
    /\ newversion = Unbound
    /\ oldversion = Unbound
    /\ objects = <<>>
    /\ report = <<>>
    /\ reported = 0
    /\ prompts = 0
    /\ exc = ""

Init ==
    /\ InitLocals
    /\ ranges = <<>>
    /\ options \in [rows : RowsOptions, field : FieldOptions, yes : BOOLEAN]
    /\ worksheet \in Sheets
    /\ before \in Databases
    /\ store = before
    /\ committed = before

Spec == Init /\ [][Next]_vars

-----------------------------------------------------------------------------
(* The --rows option alone: every combination of a few range strings *)

RowStrings ==
    {<<"2", ":">>, <<":", "5">>, <<"2", ":", "5">>, <<"-", "1", ":">>,
     <<"2", ":", "-", "1">>, <<":">>, <<"1", ":", "1">>, <<"5">>}

MaxRowArgs == 2

RowArgs == UNION {[1..n -> RowStrings] : n \in 1..MaxRowArgs}

InitRows ==
    /\ InitLocals
    /\ ranges = <<>>
    /\ options \in [rows : RowArgs, field : {FieldsKeyed}, yes : {TRUE}]
    /\ worksheet = [i \in 1..NumRows |-> <<PyStr(<<"A">>), PyInt(5)>>]
    /\ before = EmptyStore
    /\ store = before
    /\ committed = before

SpecRows == InitRows /\ [][Next]_vars

-----------------------------------------------------------------------------
(* combine_ranges called directly on intervals with integer or absent bounds *)

RangeBounds == {PyNone, PyInt(2), PyInt(5), PyInt(8), PyInt(10), PyInt(20)}

MaxRanges == 2

RangeLists ==
    UNION {[1..n -> {<<a, b>> : a \in RangeBounds, b \in RangeBounds}] :
             n \in 1..MaxRanges}

InitRanges ==
    /\ InitLocals
    /\ ranges \in RangeLists
    /\ options = [rows |-> <<>>, field |-> <<>>, yes |-> TRUE]
    /\ worksheet = <<>>
    /\ before = EmptyStore
    /\ store = before
    /\ committed = before

\* rowranges = combine_ranges(ranges)
CallCombineRanges ==
    /\ pc = "start"
    /\ LET r == combine_ranges(ranges)
       IN  IF r.ok
           THEN /\ rowranges' = r.val
                /\ pc' = "returned"
                /\ UNCHANGED exc
           ELSE /\ rowranges' = <<>>
                /\ pc' = "raised"
                /\ exc' = r.exc
    /\ UNCHANGED <<options, ranges, modeldefinitions, worksheet, before, store,
                   committed, dbcalls, ri, rowno, rowcontext, mi, newversion,
                   oldversion, objects, report, reported, prompts>>

NextRanges == CallCombineRanges

SpecRanges == InitRanges /\ [][NextRanges]_vars

-----------------------------------------------------------------------------
(* Properties *)

\* the model definition the next ImportModel step resolves
AtModel == pc = "model" /\ mi <= Len(modeldefinitions)
CurrentModel == modeldefinitions[model_import_order(modeldefinitions)[mi]]
CurrentResult == importinstance(CurrentModel, rowcontext, store)

\* C1: without -y/--yes the user is asked exactly once, after every row has
\* been processed and reported, and only a positive answer commits.
C1_AskOnceThenCommit ==
    ~options.yes =>
        /\ pc \in {"start", "rows", "model"} => prompts = 0
        /\ pc = "done" => prompts = 1
        /\ committed # before => pc = "done" /\ prompts = 1

\* C2: when resolving a model raises anything but the skip signal (a failing
\* expression, a failing lookup or upsert), handle is left at once and the
\* database is what it was before the command, whatever was written before.
C2_FailureRollsBack ==
    [][(AtModel /\ CurrentResult.exc \notin {"", "IgnoreObject"}) =>
          (pc' = "failed" /\ exc' = CurrentResult.exc
             /\ store' = before /\ committed' = before)]_vars

\* C2: a later row failed on a NameError after an earlier row had written
\* objects, and the database is the one the command found.
C2_Witness ==
    /\ pc = "failed"
    /\ exc = "NameError"
    /\ before = EmptyStore
    /\ reported >= 1
    /\ objects # <<>>
    /\ store = before

\* C3: when resolving a model raises IgnoreObject, the loop goes on with the
\* next model and nothing is added to the row's list of objects.
C3_SkipSignalAddsNothing ==
    [][(AtModel /\ CurrentResult.exc = "IgnoreObject") =>
          (pc' = "model" /\ mi' = mi + 1 /\ objects' = objects)]_vars

\* the fields of a definition that are flagged natural-key
NaturalKeyFields(model) == SelectSeq(model.fields, IsNaturalKey)

\* the step skips the object: no error, no object, no call on the store
Skipped ==
    /\ pc' = "model"
    /\ mi' = mi + 1
    /\ exc' = ""
    /\ newversion' = PyNone
    /\ objects' = objects
    /\ store' = store
    /\ dbcalls' = dbcalls

\* C4 as stated: whenever some natural-key expression evaluates to a falsy
\* value, the object is skipped: no error, no object, no call on the store.
C4_AnyFalsyKeySkips ==
    [][(/\ AtModel
        /\ \E i \in 1..Len(NaturalKeyFields(CurrentModel)) :
             LET v == _extract_fieldvalue(NaturalKeyFields(CurrentModel)[i],
                                          rowcontext, store)
             IN  v.ok /\ ~Truthy(v.val))
       => Skipped]_vars

\* C4, amended: when every natural-key expression evaluates without raising
\* and some value is falsy, the object is skipped: no error, no object, no
\* call on the store, the store unchanged.
C4_FalsyKeySkips ==
    [][(/\ AtModel
        /\ LET nk == ExtractAll(NaturalKeyFields(CurrentModel), rowcontext,
                                store)
           IN  nk.ok /\ \E i \in 1..Len(nk.val) : ~Truthy(nk.val[i]))
       => Skipped]_vars

\* C4: a row whose natural-key cell is blank has been skipped without a call
\* on the store.
C4_Witness ==
    /\ pc = "model"
    /\ mi = 2
    /\ newversion = PyNone
    /\ rowcontext["A"] = PyStr(<<>>)
    /\ dbcalls = 0
    /\ store = before

\* C5: for an object that existed before, the reported changes are exactly
\* the fields whose old and new values differ (with the fields added and
\* removed), and "No changes" is reported only when none differs.
C5_DiffListsChangedFields ==
    (pc = "rows" /\ reported > 0) =>
        /\ Len(report) = Len(objects)
        /\ \A i \in 1..Len(objects) :
             Truthy(objects[i][2]) =>
                LET old == model_to_dict(objects[i][2])
                    new == model_to_dict(objects[i][1])
                    diff == {k \in DOMAIN old \cap DOMAIN new : old[k] # new[k]}
                    removed == DOMAIN old \ DOMAIN new
                    added == DOMAIN new \ DOMAIN old
                IN  /\ report[i].changed = [k \in diff |-> new[k]]
                    /\ report[i].removed = removed
                    /\ report[i].added = added
                    /\ report[i].kind = "nochanges"
                         <=> (diff = {} /\ removed = {} /\ added = {})

\* C6: --field +app.Author.1.name:A yields the definition keyed app.Author.1
\* of model Author with name flagged natural-key, and age, given without the
\* marker, not flagged.
C6_PlusMarksNaturalKey ==
    (pc # "start" /\ options.field = FieldsPlus) =>
        \E i \in 1..Len(modeldefinitions) :
            /\ modeldefinitions[i].key = <<"app", ".", "Author", ".", "1">>
            /\ modeldefinitions[i].model = "Author"
            /\ \E j, k \in 1..Len(modeldefinitions[i].fields) :
                 /\ modeldefinitions[i].fields[j].field = <<"name">>
                 /\ modeldefinitions[i].fields[j].is_natural_key
                 /\ modeldefinitions[i].fields[k].field = <<"age">>
                 /\ ~modeldefinitions[i].fields[k].is_natural_key

\* integer n lies in interval r (an absent bound is unbounded on that side)
Covers(r, n) ==
    /\ r[1].t = "none" \/ r[1].i <= n
    /\ r[2].t = "none" \/ n <= r[2].i

\* an interval whose start does not exceed its end
WellFormed(r) == r[1].t = "none" \/ r[2].t = "none" \/ r[1].i <= r[2].i

\* one integer below and one above every bound of RangeBounds
Window == 1..21

\* C7: on intervals with start <= end, combine_ranges returns, and its result
\* is ascending by start, pairwise disjoint and covers exactly the integers
\* the input covers (an absent bound is unbounded on that side).
C7_CombineIsDisjointCover ==
    (pc # "start" /\ ranges # <<>>
       /\ \A j \in 1..Len(ranges) : WellFormed(ranges[j])) =>
        /\ pc = "returned"
        /\ \A i \in 1..Len(rowranges) : \A j \in (i + 1)..Len(rowranges) :
             /\ rowranges[j][1].t = "int"
             /\ rowranges[i][1].t = "none" \/ rowranges[i][1].i < rowranges[j][1].i
             /\ \A n \in Window :
                  ~(Covers(rowranges[i], n) /\ Covers(rowranges[j], n))
        /\ \A n \in Window :
             (\E i \in 1..Len(rowranges) : Covers(rowranges[i], n))
               <=> (\E j \in 1..Len(ranges) : Covers(ranges[j], n))

\* the bound a side of <start>:<end> stands for
ExpectedBound(side) ==
    CASE side = <<>> -> PyNone
      [] side = <<"1">> -> PyInt(1)
      [] side = <<"2">> -> PyInt(2)
      [] side = <<"5">> -> PyInt(5)
      [] side = <<"-", "1">> -> PyInt(0 - 1)

\* C8: for a single --rows string, an empty side of <start>:<end> gives an
\* absent bound and a signed integer gives that integer.
C8_EmptySideIsAbsent ==
    (pc # "start" /\ Len(options.rows) = 1
       /\ Len(Split1(options.rows[1], ":")) = 2) =>
        /\ Len(rowranges) = 1
        /\ \A k \in 1..2 :
             rowranges[1][k] = ExpectedBound(Split1(options.rows[1], ":")[k])

\* the definitions as the directives declare them, before any promotion
Declared == ParseFields(options.field, <<>>)

\* C9: once the directives are parsed, a definition none of whose fields was
\* marked has every field flagged natural-key, any other definition has the
\* flags of its directives, and this stays so while the rows are processed.
C9_PromotionOnceAndStable ==
    pc \in {"rows", "model", "confirm", "done"} =>
        /\ Declared.ok
        /\ Len(modeldefinitions) = Len(Declared.val)
        /\ \A i \in 1..Len(modeldefinitions) :
             LET d == Declared.val[i].fields
                 f == modeldefinitions[i].fields
             IN  /\ Len(f) = Len(d)
                 /\ IF \E j \in 1..Len(d) : d[j].is_natural_key
                    THEN \A j \in 1..Len(d) :
                           f[j].is_natural_key = d[j].is_natural_key
                    ELSE \A j \in 1..Len(d) : f[j].is_natural_key

\* C9: a row has been reported with one definition promoted and one keeping
\* its declared flags.
C9_Witness ==
    /\ pc = "model"
    /\ reported >= 1
    /\ options.field = FieldsTwoGroups
    /\ \A j \in 1..2 : modeldefinitions[1].fields[j].is_natural_key
    /\ modeldefinitions[2].fields[1].is_natural_key

\* the next ImportModel step resolves an object
Resolved == AtModel /\ CurrentResult.exc = "" /\ CurrentResult.new # PyNone

\* a second call on the store the step leaves finds the object as its old
\* state and writes nothing new
SecondCallChangesNothing ==
    LET again == importinstance(CurrentModel, rowcontext, store')
    IN  /\ again.exc = ""
        /\ again.old = newversion'
        /\ again.new = newversion'
        /\ again.store = store'

\* C10 as stated: after importinstance has resolved an object, a second call
\* with the same definition and row finds that object as its old state and
\* leaves the store as it is.
C10_SecondCallIdempotent ==
    [][Resolved => SecondCallChangesNothing]_vars

\* every field expression evaluates on the store the step leaves to the value
\* it has on the store the step found
SameValues ==
    \A j \in 1..Len(CurrentModel.fields) :
        _extract_fieldvalue(CurrentModel.fields[j], rowcontext, store)
          = _extract_fieldvalue(CurrentModel.fields[j], rowcontext, store')

\* C10, amended: the second call changes nothing provided every field
\* expression of the definition evaluates on the store the first call leaves
\* to the value it has on the store the first call found.
C10_SecondCallIdempotentSameValues ==
    [][(Resolved /\ SameValues) => SecondCallChangesNothing]_vars

\* C10: the second of two equal rows has been resolved with a parent and a
\* child; old and new state are equal and the store holds one of each.
C10_Witness ==
    /\ pc = "model"
    /\ mi = 2
    /\ options.field = FieldsChildren
    /\ before = EmptyStore
    /\ rowno = 2
    /\ worksheet[1] = worksheet[2]
    /\ oldversion = newversion
    /\ Len(store.Author) = 1
    /\ Len(store.Book) = 1

====
